---------------------------- MODULE Spec2Model ----------------------------
(***************************************************************************)
(* Tower of Hanoi: GameState (model layer), Solver (service layer) and     *)
(* GameController (controller layer), with the browser's interval timers   *)
(* as the only asynchronous boundary.                                      *)
(*                                                                         *)
(* Objects are records; a method is an operator from the object (and its   *)
(* arguments) to the object after the call, together with the returned     *)
(* value where the callers use it.  Tower indices are 0..2 as in the code; *)
(* a tower is a sequence of disk sizes, bottom first.                      *)
(***************************************************************************)
EXTENDS Integers, Sequences, FiniteSets, TLC

VARIABLES
    state,          \* the GameState object
    solver,         \* the Solver object
    scheduled,      \* ids of the intervals the event loop still fires
    diskCountInput, \* parseInt of the disk-count input field: <<>> is NaN, <<v>> is v
    session,        \* observation of the current playback session (history)
    lastOp          \* the last call made from outside and what it returned (history)

vars == <<state, solver, scheduled, diskCountInput, session, lastOp>>

-----------------------------------------------------------------------------
(* Bounds of the model *)

\* largest disk count a game is started with
MaxDisks == 3

\* largest disk count whose generated plan is replayed move by move
MaxReplayDisks == 6

\* manual moves a user makes through peg clicks in one game
MaxClickMoves == 3

\* call frames the engine allows before it throws RangeError
StackLimit == 32

\* intervals alive at once when the solver is driven directly
MaxIntervals == 2

\* ticks observed in one playback when the solver is driven directly
MaxProbeTicks == 4

(* Program constants *)

\* JavaScript's null (selectedTowerIndex, timer); indices and timer ids are >= 0
null == -1

MinDiskCount == 1
MaxDiskCount == 15
DefaultDiskCount == 3
ConstructorDisks == 4

TowerIndices == 0..2

\* arguments tried for a tower index: the three towers and one index out of
\* range on either side
IndexArgs == -1..3

RECURSIVE Pow2(_)
Pow2(n) == IF n <= 0 THEN 1 ELSE 2 * Pow2(n - 1)

Max(a, b) == IF a >= b THEN a ELSE b
Min(a, b) == IF a <= b THEN a ELSE b

\* manual moves allowed in the model where GameState is driven directly:
\* enough to pass the optimal count of the largest game
MaxMoveCount == Pow2(MaxDisks)

-----------------------------------------------------------------------------
(* GameState *)

EmptyTowers == [i \in TowerIndices |-> <<>>]

\* new GameState()
NewGameState ==
    [towers |-> EmptyTowers, numDisks |-> ConstructorDisks, moveCount |-> 0,
     selectedTowerIndex |-> null, autoSolving |-> FALSE]

\* the loop of init: sizes numDisks, numDisks-1, ..., 1 pushed on tower 0
InitialTower(n) == [k \in 1..n |-> n + 1 - k]

\* init that leaves the selection as it was
initKeepsSelection(g, numDisks) ==
    LET n == Max(MinDiskCount, Min(MaxDiskCount, numDisks))
    IN  [towers |-> [EmptyTowers EXCEPT ![0] = InitialTower(n)],
         numDisks |-> n, moveCount |-> 0,
         selectedTowerIndex |-> g.selectedTowerIndex, autoSolving |-> FALSE]

init(g, numDisks) ==
    LET n == Max(MinDiskCount, Min(MaxDiskCount, numDisks))
    IN  [towers |-> [EmptyTowers EXCEPT ![0] = InitialTower(n)],
         numDisks |-> n, moveCount |-> 0,
         selectedTowerIndex |-> null, autoSolving |-> FALSE]

getOptimalMoves(g) == Pow2(g.numDisks) - 1

isGameWon(g) == Len(g.towers[2]) = g.numDisks

\* 0 stands for undefined (disk sizes are >= 1)
getTopDisk(g, towerIndex) ==
    LET tower == g.towers[towerIndex]
    IN  IF Len(tower) > 0 THEN tower[Len(tower)] ELSE 0

\* canMove without the size comparison
canMoveNoSizeCheck(g, sourceIndex, targetIndex) ==
    IF sourceIndex \notin DOMAIN g.towers \/ targetIndex \notin DOMAIN g.towers
    THEN [valid |-> FALSE, error |-> "bad index"]
    ELSE IF Len(g.towers[sourceIndex]) = 0
         THEN [valid |-> FALSE, error |-> "empty source"]
         ELSE [valid |-> TRUE, error |-> ""]

\* canMove with the size comparison turned round
canMoveReversed(g, sourceIndex, targetIndex) ==
    IF sourceIndex \notin DOMAIN g.towers \/ targetIndex \notin DOMAIN g.towers
    THEN [valid |-> FALSE, error |-> "bad index"]
    ELSE LET sourceTower == g.towers[sourceIndex]
             targetTower == g.towers[targetIndex]
         IN  IF Len(sourceTower) = 0
             THEN [valid |-> FALSE, error |-> "empty source"]
             ELSE IF /\ Len(targetTower) > 0
                     /\ targetTower[Len(targetTower)] > sourceTower[Len(sourceTower)]
                  THEN [valid |-> FALSE, error |-> "larger on smaller"]
                  ELSE [valid |-> TRUE, error |-> ""]

canMove(g, sourceIndex, targetIndex) ==
    IF sourceIndex \notin DOMAIN g.towers \/ targetIndex \notin DOMAIN g.towers
    THEN [valid |-> FALSE, error |-> "bad index"]
    ELSE LET sourceTower == g.towers[sourceIndex]
             targetTower == g.towers[targetIndex]
         IN  IF Len(sourceTower) = 0
             THEN [valid |-> FALSE, error |-> "empty source"]
             ELSE LET movingDisk == sourceTower[Len(sourceTower)]
                  IN  IF Len(targetTower) > 0 /\ targetTower[Len(targetTower)] < movingDisk
                      THEN [valid |-> FALSE, error |-> "larger on smaller"]
                      ELSE [valid |-> TRUE, error |-> ""]

\* the top disk read instead of popped
MoveDiskNoPop(towers, sourceIndex, targetIndex) ==
    [towers EXCEPT ![targetIndex] = Append(@, towers[sourceIndex][Len(towers[sourceIndex])])]

\* pop from the source, then push on the target (the same array when the two
\* indices are equal)
MoveDisk(towers, sourceIndex, targetIndex) ==
    LET disk   == towers[sourceIndex][Len(towers[sourceIndex])]
        popped == [towers EXCEPT ![sourceIndex] = SubSeq(@, 1, Len(@) - 1)]
    IN  [popped EXCEPT ![targetIndex] = Append(@, disk)]

\* performMove counting the move before it validates it
performMoveCountsFirst(g, sourceIndex, targetIndex) ==
    LET counted == [g EXCEPT !.moveCount = @ + 1]
    IN  IF ~canMove(g, sourceIndex, targetIndex).valid
        THEN [state |-> counted, ret |-> FALSE]
        ELSE [state |-> [counted EXCEPT !.towers =
                            MoveDisk(g.towers, sourceIndex, targetIndex)],
              ret |-> TRUE]

\* returns the object after the call and the returned boolean
performMove(g, sourceIndex, targetIndex) ==
    IF ~canMove(g, sourceIndex, targetIndex).valid
    THEN [state |-> g, ret |-> FALSE]
    ELSE [state |-> [g EXCEPT !.towers = MoveDisk(g.towers, sourceIndex, targetIndex),
                              !.moveCount = @ + 1],
          ret |-> TRUE]

selectTower(g, index) == [g EXCEPT !.selectedTowerIndex = index]

setAutoSolving(g, value) == [g EXCEPT !.autoSolving = value]

-----------------------------------------------------------------------------
(* Solver *)

\* new Solver()
NewSolver == [moves |-> <<>>, currentMoveIndex |-> 0, timer |-> null]

\* generateSolution whose first recursive call keeps the roles of the pegs
RECURSIVE generateSolutionSameRoles(_, _, _, _, _)
generateSolutionSameRoles(n, from, to, aux, moves) ==
    IF n = 1
    THEN Append(moves, <<from, to>>)
    ELSE LET left   == generateSolutionSameRoles(n - 1, from, to, aux, moves)
             middle == Append(left, <<from, to>>)
         IN  generateSolutionSameRoles(n - 1, aux, to, from, middle)

\* the array `moves` after the call; a move is <<from, to>>
RECURSIVE generateSolution(_, _, _, _, _)
generateSolution(n, from, to, aux, moves) ==
    IF n = 1
    THEN Append(moves, <<from, to>>)
    ELSE LET left   == generateSolution(n - 1, from, aux, to, moves)
             middle == Append(left, <<from, to>>)
         IN  generateSolution(n - 1, aux, to, from, middle)

\* the deepest frame generateSolution(n, ...) called at `depth` reaches, up to
\* the engine's limit: the first recursive call descends n - 1, n - 2, ...
\* and only n = 1 returns without recursing
RECURSIVE generateSolutionDepth(_, _)
generateSolutionDepth(n, depth) ==
    IF depth >= StackLimit \/ n = 1
    THEN depth
    ELSE generateSolutionDepth(n - 1, depth + 1)

\* generateSolution(n, ...) throws RangeError; no move was pushed before it
generateSolutionThrows(n) == generateSolutionDepth(n, 1) >= StackLimit

\* prepareSolution throws what generateSolution throws
prepareSolutionThrows(numDisks) == generateSolutionThrows(numDisks)

\* the object after the call, returned or thrown out of
prepareSolution(s, numDisks) ==
    [s EXCEPT !.moves = IF generateSolutionThrows(numDisks)
                        THEN <<>>
                        ELSE generateSolution(numDisks, 0, 2, 1, <<>>),
              !.currentMoveIndex = 0]

\* getNextMove that leaves the cursor where it is
getNextMoveNoAdvance(s) ==
    IF s.currentMoveIndex >= Len(s.moves)
    THEN [solver |-> s, move |-> <<>>]
    ELSE [solver |-> s, move |-> s.moves[s.currentMoveIndex + 1]]

\* returns the object after the call and the move, <<>> for null
getNextMove(s) ==
    IF s.currentMoveIndex >= Len(s.moves)
    THEN [solver |-> s, move |-> <<>>]
    ELSE [solver |-> [s EXCEPT !.currentMoveIndex = @ + 1],
          move |-> s.moves[s.currentMoveIndex + 1]]

hasMoreMoves(s) == s.currentMoveIndex < Len(s.moves)

isRunning(s) == s.timer # null

getTotalMoves(s) == Len(s.moves)

-----------------------------------------------------------------------------
(* The page: the objects a handler can touch.  A handler is an operator     *)
(* from the page before it runs to the page after it has returned.         *)

Page ==
    [state |-> state, solver |-> solver, scheduled |-> scheduled,
     diskCountInput |-> diskCountInput, session |-> session]

\* what is observed of a playback session: how it ended, the length of the
\* plan when it started, the ticks fired and the callbacks they invoked
NoSession ==
    [phase |-> "none", total |-> 0, ticks |-> 0, onMoveCalls |-> 0,
     onCompleteCalls |-> 0]

\* window.setInterval returns an id no live interval has; ids are positive
setInterval(w) ==
    CHOOSE id \in 1..(Cardinality(w.scheduled) + 1) : id \notin w.scheduled

\* window.clearInterval
clearInterval(w, id) == [w EXCEPT !.scheduled = @ \ {id}]

\* stop that forgets the handle without clearing the interval
stopKeepsInterval(w) ==
    [w EXCEPT !.solver = [moves |-> <<>>, currentMoveIndex |-> 0, timer |-> null]]

\* stop that pauses: the interval is cleared, plan and cursor are kept
stopKeepsPlan(w) ==
    IF w.solver.timer # null
    THEN [clearInterval(w, w.solver.timer) EXCEPT !.solver.timer = null]
    ELSE w

\* Solver.stop
stop(w) ==
    LET cleared == IF w.solver.timer # null
                   THEN clearInterval(w, w.solver.timer)
                   ELSE w
    IN  [cleared EXCEPT !.solver = [moves |-> <<>>, currentMoveIndex |-> 0,
                                    timer |-> null]]

\* Solver.startAutoPlay: the interval is scheduled and its handle kept
startAutoPlay(w) ==
    LET id == setInterval(w)
    IN  [w EXCEPT !.solver.timer = id,
                  !.scheduled = @ \cup {id},
                  !.session = [phase |-> "playing",
                               total |-> getTotalMoves(w.solver),
                               ticks |-> 0, onMoveCalls |-> 0,
                               onCompleteCalls |-> 0]]

-----------------------------------------------------------------------------
(* GameView: only the disk-count field carries state the game reads *)

getDiskCountValue(input) ==
    LET value == IF input = <<>> THEN DefaultDiskCount ELSE input[1]
    IN  Max(MinDiskCount, Min(MaxDiskCount, value))

-----------------------------------------------------------------------------
(* GameController *)

\* solver.stop() called by the controller: the session, if one is playing,
\* is stopped from outside
StopFromOutside(w) ==
    [stop(w) EXCEPT !.session.phase = IF @ = "playing" THEN "stopped" ELSE @]

\* initGame without the solver.stop() it begins with
initGameNoStop(w) ==
    LET numDisks == getDiskCountValue(w.diskCountInput)
    IN  [w EXCEPT !.session.phase = IF @ = "playing" THEN "stopped" ELSE @,
                  !.diskCountInput = <<numDisks>>,
                  !.state = init(setAutoSolving(@, FALSE), numDisks)]

initGame(w) ==
    LET stopped  == StopFromOutside(w)
        numDisks == getDiskCountValue(w.diskCountInput)
    IN  [stopped EXCEPT !.diskCountInput = <<numDisks>>,
                        !.state = init(setAutoSolving(@, FALSE), numDisks)]

\* GameController.performMove: the page after the call and the returned boolean
ctlPerformMove(w, sourceIndex, targetIndex) ==
    IF ~canMove(w.state, sourceIndex, targetIndex).valid
    THEN [page |-> w, ret |-> FALSE]
    ELSE [page |-> [w EXCEPT !.state = performMove(@, sourceIndex, targetIndex).state],
          ret |-> TRUE]

\* handleTowerClick without the autoSolving guard
handleTowerClickUnguarded(w, index) ==
    LET selectedIndex == w.state.selectedTowerIndex
    IN  IF selectedIndex = null
        THEN IF Len(w.state.towers[index]) = 0
             THEN w
             ELSE [w EXCEPT !.state = selectTower(@, index)]
        ELSE IF selectedIndex = index
             THEN [w EXCEPT !.state = selectTower(@, null)]
             ELSE [ctlPerformMove(w, selectedIndex, index).page
                       EXCEPT !.state = selectTower(@, null)]

\* handleTowerClick that disarms only when the move was made
handleTowerClickKeepsArmed(w, index) ==
    IF w.state.autoSolving
    THEN w
    ELSE LET selectedIndex == w.state.selectedTowerIndex
         IN  IF selectedIndex = null
             THEN IF Len(w.state.towers[index]) = 0
                  THEN w
                  ELSE [w EXCEPT !.state = selectTower(@, index)]
             ELSE IF selectedIndex = index
                  THEN [w EXCEPT !.state = selectTower(@, null)]
                  ELSE LET call == ctlPerformMove(w, selectedIndex, index)
                       IN  IF call.ret
                           THEN [call.page EXCEPT !.state = selectTower(@, null)]
                           ELSE call.page

\* handleTowerClick that arms a tower without looking at its disks
handleTowerClickArmsEmpty(w, index) ==
    IF w.state.autoSolving
    THEN w
    ELSE LET selectedIndex == w.state.selectedTowerIndex
         IN  IF selectedIndex = null
             THEN [w EXCEPT !.state = selectTower(@, index)]
             ELSE IF selectedIndex = index
                  THEN [w EXCEPT !.state = selectTower(@, null)]
                  ELSE [ctlPerformMove(w, selectedIndex, index).page
                            EXCEPT !.state = selectTower(@, null)]

handleTowerClick(w, index) ==
    IF w.state.autoSolving
    THEN w
    ELSE LET selectedIndex == w.state.selectedTowerIndex
         IN  IF selectedIndex = null
             THEN IF Len(w.state.towers[index]) = 0
                  THEN w
                  ELSE [w EXCEPT !.state = selectTower(@, index)]
             ELSE IF selectedIndex = index
                  THEN [w EXCEPT !.state = selectTower(@, null)]
                  ELSE [ctlPerformMove(w, selectedIndex, index).page
                            EXCEPT !.state = selectTower(@, null)]

\* the onMove callback startAutoSolve passes to the solver
onMove(w, from, to) ==
    [ctlPerformMove(w, from, to).page EXCEPT !.session.onMoveCalls = @ + 1]

\* onComplete that leaves the autoSolving flag set
onCompleteKeepsFlag(w) ==
    [w EXCEPT !.session.onCompleteCalls = @ + 1,
              !.session.phase = IF @ = "playing" THEN "completed" ELSE @]

\* the onComplete callback startAutoSolve passes to the solver
onComplete(w) ==
    [w EXCEPT !.state = setAutoSolving(@, FALSE),
              !.session.onCompleteCalls = @ + 1,
              !.session.phase = IF @ = "playing" THEN "completed" ELSE @]

\* the interval function without the stop() of the exhausted branch
intervalCallbackNoStop(w) ==
    LET next   == getNextMove(w.solver)
        ticked == [w EXCEPT !.solver = next.solver, !.session.ticks = @ + 1]
    IN  IF next.move = <<>>
        THEN onComplete(ticked)
        ELSE onMove(ticked, next.move[1], next.move[2])

\* the function Solver.startAutoPlay hands to setInterval
intervalCallback(w) ==
    LET next   == getNextMove(w.solver)
        ticked == [w EXCEPT !.solver = next.solver, !.session.ticks = @ + 1]
    IN  IF next.move = <<>>
        THEN onComplete(stop(ticked))
        ELSE onMove(ticked, next.move[1], next.move[2])

startAutoSolve(w) ==
    LET fresh    == initGame(w)
        prepared == [fresh EXCEPT !.solver = prepareSolution(@, fresh.state.numDisks)]
    IN  IF getTotalMoves(prepared.solver) = 0
        THEN prepared
        ELSE startAutoPlay([prepared EXCEPT !.state = setAutoSolving(@, TRUE)])

\* stopAutoSolve that leaves the autoSolving flag set
stopAutoSolveKeepsFlag(w) == StopFromOutside(w)

stopAutoSolve(w) ==
    [StopFromOutside(w) EXCEPT !.state = setAutoSolving(@, FALSE)]

\* the click handler of the solve button
solveButtonClick(w) ==
    IF w.state.autoSolving THEN stopAutoSolve(w) ELSE startAutoSolve(w)

-----------------------------------------------------------------------------
(* Steps *)

SetPage(w) ==
    /\ state' = w.state
    /\ solver' = w.solver
    /\ scheduled' = w.scheduled
    /\ diskCountInput' = w.diskCountInput
    /\ session' = w.session

Op(name, a, b, ret) == [op |-> name, a |-> a, b |-> b, ret |-> ret]

\* what the disk-count field can hold: not a number, or a number
DiskInputs == {<<>>} \cup {<<v>> : v \in 0..MaxDisks}

\* game.init() of app.js: bindEvents, then initGame on the constructed objects
Init ==
    \E input \in DiskInputs :
        LET w == initGame([state |-> NewGameState, solver |-> NewSolver,
                           scheduled |-> {}, diskCountInput |-> input,
                           session |-> NoSession])
        IN  /\ state = w.state
            /\ solver = w.solver
            /\ scheduled = w.scheduled
            /\ diskCountInput = w.diskCountInput
            /\ session = w.session
            /\ lastOp = Op("init", 0, 0, TRUE)

\* a click on tower `index`
TowerClick(index) ==
    LET after == handleTowerClick(Page, index)
    IN  /\ \/ after.state.moveCount = state.moveCount
           \/ state.moveCount < MaxClickMoves
        /\ SetPage(after)
        /\ lastOp' = Op("handleTowerClick", index, 0, TRUE)

\* a click on the reset button
ResetClick ==
    /\ SetPage(initGame(Page))
    /\ lastOp' = Op("initGame", 0, 0, TRUE)

\* the user changes the disk-count field
DiskCountChange(input) ==
    /\ SetPage(initGame([Page EXCEPT !.diskCountInput = input]))
    /\ lastOp' = Op("initGame", 0, 0, TRUE)

\* a click on the solve button
SolveClick ==
    /\ SetPage(solveButtonClick(Page))
    /\ lastOp' = Op(IF state.autoSolving THEN "stopAutoSolve" ELSE "startAutoSolve",
                    0, 0, TRUE)

\* the event loop fires a live interval; a cleared interval never fires
Tick ==
    \E id \in scheduled :
        /\ SetPage(intervalCallback(Page))
        /\ lastOp' = Op("tick", id, 0, TRUE)

Next ==
    \/ \E index \in TowerIndices : TowerClick(index)
    \/ ResetClick
    \/ \E input \in DiskInputs : DiskCountChange(input)
    \/ SolveClick
    \/ Tick

Spec == Init /\ [][Next]_vars

-----------------------------------------------------------------------------
(* GameState driven directly: init, then any performMove calls, with any    *)
(* index arguments                                                         *)

InitState ==
    \E n \in 1..MaxDisks :
        /\ state = init(NewGameState, n)
        /\ solver = NewSolver
        /\ scheduled = {}
        /\ diskCountInput = <<n>>
        /\ session = NoSession
        /\ lastOp = Op("init", n, 0, TRUE)

CallInit(n) ==
    /\ state' = init(state, n)
    /\ lastOp' = Op("init", n, 0, TRUE)
    /\ UNCHANGED <<solver, scheduled, diskCountInput, session>>

CallPerformMove(sourceIndex, targetIndex) ==
    LET call == performMove(state, sourceIndex, targetIndex)
    IN  /\ state.moveCount < MaxMoveCount
        /\ state' = call.state
        /\ lastOp' = Op("performMove", sourceIndex, targetIndex, call.ret)
        /\ UNCHANGED <<solver, scheduled, diskCountInput, session>>

NextState ==
    \/ \E n \in 0..MaxDisks : CallInit(n)
    \/ \E s \in IndexArgs, d \in IndexArgs : CallPerformMove(s, d)

SpecState == InitState /\ [][NextState]_vars

-----------------------------------------------------------------------------
(* The generated plan replayed on a fresh GameState, one move per step *)

InitReplay ==
    \E n \in 1..MaxReplayDisks :
        /\ state = init(NewGameState, n)
        /\ solver = prepareSolution(NewSolver, n)
        /\ scheduled = {}
        /\ diskCountInput = <<n>>
        /\ session = NoSession
        /\ lastOp = Op("prepareSolution", n, 0, TRUE)

ReplayMove ==
    LET next == getNextMove(solver)
    IN  /\ next.move # <<>>
        /\ LET call == performMove(state, next.move[1], next.move[2])
           IN  /\ state' = call.state
               /\ lastOp' = Op("performMove", next.move[1], next.move[2], call.ret)
        /\ solver' = next.solver
        /\ UNCHANGED <<scheduled, diskCountInput, session>>

SpecReplay == InitReplay /\ [][ReplayMove]_vars

-----------------------------------------------------------------------------
(* Solver driven directly, its callbacks being probes that only count: any  *)
(* of its operations in any order, startAutoPlay while running included    *)

\* an onMove callback that counts its calls
probeMove(w, from, to) == [w EXCEPT !.session.onMoveCalls = @ + 1]

\* an onComplete callback that counts its calls
probeComplete(w) ==
    [w EXCEPT !.session.onCompleteCalls = @ + 1,
              !.session.phase = IF @ = "playing" THEN "completed" ELSE @]

\* the function Solver.startAutoPlay hands to setInterval, with the probes
probeCallback(w) ==
    LET next   == getNextMove(w.solver)
        ticked == [w EXCEPT !.solver = next.solver, !.session.ticks = @ + 1]
    IN  IF next.move = <<>>
        THEN probeComplete(stop(ticked))
        ELSE probeMove(ticked, next.move[1], next.move[2])

InitSolver ==
    /\ state = NewGameState
    /\ solver = NewSolver
    /\ scheduled = {}
    /\ diskCountInput = <<>>
    /\ session = NoSession
    /\ lastOp = Op("Solver", 0, 0, TRUE)

\* ret is FALSE when the call throws
CallPrepareSolution(n) ==
    /\ SetPage([Page EXCEPT !.solver = prepareSolution(@, n)])
    /\ lastOp' = Op("prepareSolution", n, 0, ~prepareSolutionThrows(n))

CallStartAutoPlay ==
    /\ Cardinality(scheduled) < MaxIntervals
    /\ SetPage(startAutoPlay(Page))
    /\ lastOp' = Op("startAutoPlay", 0, 0, TRUE)

CallStop ==
    /\ SetPage(StopFromOutside(Page))
    /\ lastOp' = Op("stop", 0, 0, TRUE)

ProbeTick ==
    \E id \in scheduled :
        /\ session.ticks < MaxProbeTicks
        /\ SetPage(probeCallback(Page))
        /\ lastOp' = Op("tick", id, 0, TRUE)

NextSolver ==
    \/ \E n \in 0..MaxDisks : CallPrepareSolution(n)
    \/ CallStartAutoPlay
    \/ CallStop
    \/ ProbeTick

SpecSolver == InitSolver /\ [][NextSolver]_vars

-----------------------------------------------------------------------------
(* The controller with no stop, reset or solve-button event during a        *)
(* session; a live interval keeps firing                                   *)

NextLive ==
    \/ \E index \in TowerIndices : TowerClick(index)
    \/ ~state.autoSolving /\ ResetClick
    \/ ~state.autoSolving /\ \E input \in DiskInputs : DiskCountChange(input)
    \/ ~state.autoSolving /\ SolveClick
    \/ Tick

SpecLive == Init /\ [][NextLive]_vars /\ WF_vars(Tick)

-----------------------------------------------------------------------------
(* Properties *)

\* the plan prepareSolution generates for n disks
Plan(n) == prepareSolution(NewSolver, n).moves

\* performMove applied for each move of a sequence, in order
RECURSIVE ApplyMoves(_, _)
ApplyMoves(g, moves) ==
    IF moves = <<>>
    THEN g
    ELSE ApplyMoves(performMove(g, Head(moves)[1], Head(moves)[2]).state, Tail(moves))

StrictlyDecreasing(tower) ==
    \A k \in 1..(Len(tower) - 1) : tower[k] > tower[k + 1]

\* the places (tower, height) where a disk of the given size lies
PlacesOf(towers, size) ==
    {p \in TowerIndices \X (1..MaxDiskCount) :
        p[2] <= Len(towers[p[1]]) /\ towers[p[1]][p[2]] = size}

TotalDisks(towers) == Len(towers[0]) + Len(towers[1]) + Len(towers[2])

\* C1: for every disk count n of the range, prepareSolution(n) holds exactly
\* 2^n - 1 moves; replayed in order on init(n) no performMove returns false,
\* every move is applied, and when the plan is exhausted the game is won.
C1_PlanSolvesPuzzle ==
    /\ getTotalMoves(solver) = Pow2(state.numDisks) - 1
    /\ lastOp.op = "performMove" => lastOp.ret
    /\ state.moveCount = solver.currentMoveIndex
    /\ ~hasMoreMoves(solver) => isGameWon(state)

C1_Witness ==
    /\ state.numDisks = 5
    /\ ~hasMoreMoves(solver)
    /\ state.moveCount = 31
    /\ isGameWon(state)
    /\ lastOp.op = "performMove"

\* C2: after init(n) and any performMove calls, applied or rejected, every
\* tower is strictly decreasing bottom to top and each size 1..numDisks lies
\* in exactly one place; the towers hold numDisks disks in all.
C2_TowersWellFormed ==
    /\ \A i \in TowerIndices : StrictlyDecreasing(state.towers[i])
    /\ \A size \in 1..state.numDisks : Cardinality(PlacesOf(state.towers, size)) = 1
    /\ TotalDisks(state.towers) = state.numDisks

C2_Witness ==
    /\ state.numDisks = 3
    /\ \A i \in TowerIndices : Len(state.towers[i]) = 1
    /\ state.moveCount >= 3
    /\ lastOp.op = "performMove"
    /\ ~lastOp.ret

\* C3: no sequence of performMove calls wins in fewer moves than the
\* optimal count, which is the length of the generated plan: 2^n - 1.
C3_PlanIsMinimal ==
    /\ getOptimalMoves(state) = Len(Plan(state.numDisks))
    /\ isGameWon(state) => state.moveCount >= getOptimalMoves(state)

C3_Witness ==
    /\ state.numDisks = 3
    /\ isGameWon(state)
    /\ state.moveCount = 7
    /\ lastOp.op = "performMove"

\* C4: once the controller has stopped a session, after k ticks (k = 0
\* included), the solver is not running, no interval is left, the k ticks
\* applied k moves and none completed; the stop itself leaves towers and
\* moveCount (= k) alone; and until a new session starts no tick fires and
\* no callback is invoked.
C4_StopIsImmediate ==
    /\ [](session.phase = "stopped" =>
            /\ ~isRunning(solver)
            /\ scheduled = {}
            /\ session.onMoveCalls = session.ticks
            /\ session.onCompleteCalls = 0)
    /\ [][/\ lastOp'.op = "stopAutoSolve" =>
                /\ state.moveCount = session.ticks
                /\ state'.moveCount = state.moveCount
                /\ state'.towers = state.towers
                /\ session' = [session EXCEPT !.phase = "stopped"]
          /\ session.phase = "stopped" =>
                /\ lastOp'.op # "tick"
                /\ session'.phase = "stopped" => session' = session]_vars

C4_Witness ==
    /\ session.phase = "stopped"
    /\ lastOp.op = "stopAutoSolve"
    /\ session.ticks = 2
    /\ state.moveCount = 2
    /\ ~isRunning(solver)

\* C5: while autoSolving is set a peg click, whatever its index, changes
\* nothing; a step that changes towers or moveCount with the flag set is a
\* solver tick, or initGame, which clears the flag before it replaces the
\* towers.
C5_ClicksIgnoredWhileAutoSolving ==
    /\ [](state.autoSolving =>
            /\ \A index \in TowerIndices : handleTowerClick(Page, index) = Page
            /\ \A index \in IndexArgs \ TowerIndices : handleTowerClick(Page, index) = Page)
    /\ [][state.autoSolving =>
            /\ lastOp'.op = "handleTowerClick" =>
                  UNCHANGED <<state, solver, scheduled, diskCountInput, session>>
            /\ (state'.towers # state.towers \/ state'.moveCount # state.moveCount) =>
                  \/ lastOp'.op = "tick"
                  \/ lastOp'.op = "initGame" /\ ~state'.autoSolving]_vars

C5_Witness ==
    /\ state.autoSolving
    /\ lastOp.op = "handleTowerClick"
    /\ session.ticks = 2
    /\ Len(state.towers[0]) > 0

\* C6: during an auto-solve session, after k ticks the towers are the first
\* k moves of the plan applied to the initial configuration, and moveCount,
\* the cursor and the number of onMove calls are all k, 0 <= k <= 2^n - 1.
C6_MovesInPlanOrder ==
    state.autoSolving =>
        /\ session.phase = "playing"
        /\ solver.moves = Plan(state.numDisks)
        /\ session.ticks \in 0..(Pow2(state.numDisks) - 1)
        /\ solver.currentMoveIndex = session.ticks
        /\ state.moveCount = session.ticks
        /\ session.onMoveCalls = session.ticks
        /\ state.towers =
              ApplyMoves(init(NewGameState, state.numDisks),
                         SubSeq(Plan(state.numDisks), 1, session.ticks)).towers

C6_Witness ==
    /\ state.autoSolving
    /\ state.numDisks = 3
    /\ session.ticks = 5
    /\ lastOp.op = "tick"

\* C7: in a session never stopped from outside every tick invokes exactly
\* one callback; onComplete is invoked at most once, by the tick that
\* follows the last move of the plan, which also cancels the interval; after
\* it no tick fires and no callback is invoked.
C7_CompletesExactlyOnce ==
    /\ [](/\ session.phase = "playing" =>
                /\ session.onCompleteCalls = 0
                /\ session.onMoveCalls = session.ticks
                /\ session.ticks <= session.total
                /\ isRunning(solver)
                /\ scheduled = {solver.timer}
          /\ session.phase = "completed" =>
                /\ session.onCompleteCalls = 1
                /\ session.onMoveCalls = session.total
                /\ session.ticks = session.total + 1
                /\ ~isRunning(solver)
                /\ scheduled = {})
    /\ [][session.phase = "completed" =>
            /\ lastOp'.op # "tick"
            /\ session'.phase = "completed" => session' = session]_vars

C7_Witness ==
    /\ session.phase = "completed"
    /\ session.total = 7
    /\ session.onCompleteCalls = 1
    /\ lastOp.op = "tick"

\* C8: with the interval firing and no stop, reset or solve-button event, a
\* started session completes: the flag is cleared, the solver is not
\* running, the game is won and moveCount = getOptimalMoves() = 2^n - 1.
C8_SessionCompletes ==
    state.autoSolving ~>
        /\ ~state.autoSolving
        /\ session.phase = "completed"
        /\ ~isRunning(solver)
        /\ isGameWon(state)
        /\ state.moveCount = getOptimalMoves(state)
        /\ state.moveCount = Pow2(state.numDisks) - 1

C8_Witness ==
    /\ session.phase = "completed"
    /\ lastOp.op = "tick"
    /\ ~state.autoSolving
    /\ isGameWon(state)
    /\ state.numDisks = 3
    /\ state.moveCount = 7

\* C9: a performMove call whose canMove verdict is invalid returns false and
\* leaves the whole GameState as it was; so does the controller's performMove
\* with the page.
C9_InvalidMoveChangesNothing ==
    /\ [](\A s \in IndexArgs, d \in IndexArgs :
            ~canMove(state, s, d).valid =>
                ctlPerformMove(Page, s, d) = [page |-> Page, ret |-> FALSE])
    /\ [][\A s \in IndexArgs, d \in IndexArgs :
            (lastOp' = Op("performMove", s, d, lastOp'.ret) /\ ~canMove(state, s, d).valid)
                => (~lastOp'.ret /\ state' = state)]_vars

C9_Witness ==
    /\ lastOp.op = "performMove"
    /\ ~lastOp.ret
    /\ lastOp.a = 1 /\ lastOp.b = 2
    /\ state.moveCount = 2
    /\ Len(state.towers[2]) = 1

\* the verdict C10 states, from the towers alone
InvalidByRule(towers, s, d) ==
    \/ s \notin TowerIndices
    \/ d \notin TowerIndices
    \/ /\ s \in TowerIndices /\ d \in TowerIndices
       /\ \/ towers[s] = <<>>
          \/ /\ towers[s] # <<>>
             /\ towers[d] # <<>>
             /\ towers[d][Len(towers[d])] < towers[s][Len(towers[s])]

\* C10: for distinct indices canMove is invalid exactly when an index is out
\* of range, the source is empty, or the target's top disk is smaller than
\* the source's; onto an empty tower a move from a non-empty one is valid.
C10_CanMoveVerdict ==
    \A s \in IndexArgs, d \in IndexArgs :
        s # d =>
            /\ canMove(state, s, d).valid = ~InvalidByRule(state.towers, s, d)
            /\ (/\ s \in TowerIndices /\ d \in TowerIndices
                /\ state.towers[s] # <<>> /\ state.towers[d] = <<>>)
                    => canMove(state, s, d).valid

C10_Witness ==
    /\ state.numDisks = 3
    /\ state.towers[0] = <<3>>
    /\ state.towers[1] = <<>>
    /\ state.towers[2] = <<2, 1>>
    /\ lastOp = Op("performMove", 0, 2, FALSE)

\* C11: a move needs source # destination: for every tower i, canMove(i, i)
\* is not valid, and a performMove(i, i) call returns false and leaves
\* moveCount as it was.
C11_SelfMoveRejected ==
    /\ [](\A i \in TowerIndices :
            lastOp = Op("performMove", i, i, lastOp.ret) => ~lastOp.ret)
    /\ [][\A i \in TowerIndices :
            lastOp' = Op("performMove", i, i, lastOp'.ret) =>
                /\ ~canMove(state, i, i).valid
                /\ ~lastOp'.ret
                /\ state'.moveCount = state.moveCount]_vars

\* C12: prepareSolution(0) returns, and leaves an empty plan:
\* getTotalMoves() = 0.
C12_ZeroDisksEmptyPlan ==
    lastOp.op = "prepareSolution" /\ lastOp.a = 0 =>
        /\ lastOp.ret
        /\ getTotalMoves(solver) = 0

\* C13: after any sequence of Solver operations isRunning() is true exactly
\* when some interval is still scheduled; after stop() none is.
C13_RunningIffScheduled ==
    /\ isRunning(solver) <=> scheduled # {}
    /\ lastOp.op = "stop" => scheduled = {}

\* disk counts asked of init: around the lower clamp, the playable range,
\* around the upper clamp, and 20
InitArgs == (-2..(MaxDisks + 1)) \cup {14, 15, 16, 20}

\* the state the claim says init(n) leaves
IsFreshGame(g, n) ==
    LET nd == IF n < 1 THEN 1 ELSE IF n > 15 THEN 15 ELSE n
    IN  /\ g.numDisks = nd
        /\ Len(g.towers[0]) = nd
        /\ \A k \in 1..nd : g.towers[0][k] = nd - k + 1
        /\ g.towers[1] = <<>>
        /\ g.towers[2] = <<>>
        /\ g.moveCount = 0
        /\ g.selectedTowerIndex = null
        /\ ~g.autoSolving

\* C14: init(n), for any integer n and from any state, leaves numDisks =
\* min(15, max(1, n)), tower 0 = numDisks..1, towers 1 and 2 empty, moveCount
\* 0, no selection and autoSolving false; 0 gives 1 disk and 20 gives 15.
C14_InitReplacesState ==
    /\ [](/\ \A n \in InitArgs : IsFreshGame(init(state, n), n)
          /\ init(state, 0).numDisks = 1
          /\ init(state, 20).numDisks = 15)
    /\ [][lastOp'.op = "initGame" =>
            \E n \in 1..MaxDiskCount : /\ diskCountInput' = <<n>>
                                       /\ IsFreshGame(state', n)]_vars

C14_Witness ==
    /\ lastOp.op = "initGame"
    /\ session.phase = "stopped"
    /\ session.ticks = 3
    /\ state.numDisks = 2
    /\ state.moveCount = 0
    /\ state.towers[0] = <<2, 1>>

\* tower s lost its top disk, tower d got it on top, the others are as before
TopDiskRelocated(before, after, s, d) ==
    /\ after[s] = SubSeq(before[s], 1, Len(before[s]) - 1)
    /\ after[d] = Append(before[d], before[s][Len(before[s])])
    /\ \A i \in TowerIndices \ {s, d} : after[i] = before[i]

\* what the claim says a click on tower c does to the GameState g
ClickOutcome(g, after, c) ==
    LET armed == g.selectedTowerIndex
    IN  IF armed # null
        THEN /\ after.selectedTowerIndex = null
             /\ IF c # armed /\ canMove(g, armed, c).valid
                THEN /\ TopDiskRelocated(g.towers, after.towers, armed, c)
                     /\ after.moveCount = g.moveCount + 1
                ELSE /\ after.towers = g.towers
                     /\ after.moveCount = g.moveCount
        ELSE IF g.towers[c] = <<>>
             THEN after = g
             ELSE after = [g EXCEPT !.selectedTowerIndex = c]

\* C15: with auto-play inactive, a click while a peg is armed leaves no peg
\* armed; on the armed peg it changes nothing else; on another peg it applies
\* the move and counts it iff canMove is valid; with no peg armed a click on
\* an empty peg changes nothing and on a non-empty peg only arms it.
C15_SelectionStateMachine ==
    /\ [](~state.autoSolving =>
            \A c \in TowerIndices :
                LET after == handleTowerClick(Page, c)
                IN  /\ ClickOutcome(state, after.state, c)
                    /\ after.state.numDisks = state.numDisks
                    /\ ~after.state.autoSolving
                    /\ after = [Page EXCEPT !.state = after.state])
    /\ [][(lastOp'.op = "handleTowerClick" /\ ~state.autoSolving) =>
            /\ ClickOutcome(state, state', lastOp'.a)
            /\ UNCHANGED <<solver, scheduled, diskCountInput, session>>]_vars

C15_Witness ==
    /\ lastOp = Op("handleTowerClick", 1, 0, TRUE)
    /\ ~state.autoSolving
    /\ state.selectedTowerIndex = null
    /\ state.numDisks = 2
    /\ state.towers[1] = <<1>>
    /\ state.moveCount = 1

\* C16: stop() from any solver state leaves the solver not running with an
\* empty plan and cursor 0, and a second stop() changes nothing;
\* startAutoPlay does not bring a plan back, so a tick that finds the plan
\* empty invokes no onMove: it completes and leaves the solver stopped.
C16_StopIsHardReset ==
    /\ [](LET once == stop(Page)
          IN  /\ ~isRunning(once.solver)
              /\ once.solver.moves = <<>>
              /\ once.solver.currentMoveIndex = 0
              /\ stop(once) = once)
    /\ [][/\ lastOp'.op = "stop" =>
                /\ ~isRunning(solver')
                /\ getTotalMoves(solver') = 0
                /\ solver'.currentMoveIndex = 0
          /\ lastOp'.op = "startAutoPlay" =>
                /\ solver'.moves = solver.moves
                /\ solver'.currentMoveIndex = solver.currentMoveIndex
          /\ (lastOp'.op = "tick" /\ solver.moves = <<>>) =>
                /\ session'.onMoveCalls = session.onMoveCalls
                /\ session'.onCompleteCalls = session.onCompleteCalls + 1
                /\ ~isRunning(solver')]_vars

C16_Witness ==
    /\ lastOp.op = "stop"
    /\ session.phase = "stopped"
    /\ session.total = 3
    /\ session.ticks = 2
    /\ solver = NewSolver

\* C17: a performMove(s, d) that returns true leaves tower s without its top
\* disk, tower d with that disk on top and the third tower as it was,
\* moveCount one larger, and numDisks, selectedTowerIndex and autoSolving
\* unchanged.
C17_OnlyTopDiskRelocated ==
    [][\A s \in IndexArgs, d \in IndexArgs :
        lastOp' = Op("performMove", s, d, TRUE) =>
            /\ TopDiskRelocated(state.towers, state'.towers, s, d)
            /\ state'.moveCount = state.moveCount + 1
            /\ state'.numDisks = state.numDisks
            /\ state'.selectedTowerIndex = state.selectedTowerIndex
            /\ state'.autoSolving = state.autoSolving]_vars

\* C18: between any two events the controller handles, autoSolving agrees
\* with the solver running, and a solver that is not running has an empty
\* plan and cursor 0.
C18_FlagAgreesWithSolver ==
    /\ state.autoSolving <=> isRunning(solver)
    /\ ~isRunning(solver) =>
          /\ solver.moves = <<>>
          /\ solver.currentMoveIndex = 0

C18_Witness ==
    /\ lastOp.op = "stopAutoSolve"
    /\ session.ticks = 1
    /\ state.moveCount = 1
    /\ ~state.autoSolving
    /\ ~isRunning(solver)

\* C19: an armed peg is one of the three towers and holds a disk; no peg is
\* armed while auto-play is active; so the move a click attempts from the
\* armed peg is never rejected for a bad index or an empty source.
C19_ArmedPegHoldsDisk ==
    /\ state.autoSolving => state.selectedTowerIndex = null
    /\ state.selectedTowerIndex # null =>
          /\ state.selectedTowerIndex \in TowerIndices
          /\ state.towers[state.selectedTowerIndex] # <<>>
          /\ \A c \in TowerIndices \ {state.selectedTowerIndex} :
                canMove(state, state.selectedTowerIndex, c).error
                    \notin {"bad index", "empty source"}

C19_Witness ==
    /\ lastOp = Op("handleTowerClick", 2, 0, TRUE)
    /\ state.selectedTowerIndex = 2
    /\ state.moveCount = 2
    /\ state.towers[0] = <<>>

\* C20: a reset or a manual stop at any point of a session, the point
\* between the last move and the completion tick included, ends it: the
\* interval is gone and the flag clear; until the next startAutoSolve no
\* tick fires, onComplete never runs, and towers and moveCount change only
\* in a handler of a user event.
C20_SessionEndsForGood ==
    /\ [](session.phase = "stopped" =>
            /\ scheduled = {}
            /\ ~state.autoSolving
            /\ session.onCompleteCalls = 0)
    /\ [][/\ (session.phase = "playing" /\ lastOp'.op \in {"initGame", "stopAutoSolve"}) =>
                /\ session'.phase = "stopped"
                /\ scheduled' = {}
                /\ ~state'.autoSolving
          /\ session.phase = "stopped" =>
                /\ lastOp'.op \in {"handleTowerClick", "initGame", "startAutoSolve"}
                /\ lastOp'.op # "startAutoSolve" =>
                      /\ session' = session
                      /\ scheduled' = {}]_vars

C20_Witness ==
    /\ session.phase = "stopped"
    /\ lastOp.op = "initGame"
    /\ session.total = 3
    /\ session.ticks = 3
    /\ session.onCompleteCalls = 0
    /\ state.moveCount = 0

=============================================================================
